---- MODULE Spec2Model ----
(***************************************************************************)
(* embellij - the static site generator of src/embellij.js.                *)
(*                                                                         *)
(* One run of the command-line tool is one call of processSite on a fresh  *)
(* site object: load the page cache, readPages, generateIndexableSubpages, *)
(* writePages, save the page cache.  The model keeps the file system the   *)
(* run reads and writes (the source files, the template, the output tree,  *)
(* the cache file), the site object of the run in progress, and the        *)
(* position of the run.  Between runs the environment may touch or edit a  *)
(* source file or edit the template.  The copy of the media directory      *)
(* (fs.copy) reads and writes no page and is left out.                     *)
(*                                                                         *)
(* FaultSpec adds the failures of the environment: a source file that      *)
(* cannot be read, a template that is missing, a cache file that cannot be *)
(* written.  AggSpec runs generateIndexableSubpages, and UniSpec runs      *)
(* convertUnicodeCharsToHtml, on their own over bounded inputs.            *)
(*                                                                         *)
(* Time is counted in milliseconds, scaled down: a second has MsPerSec     *)
(* milliseconds.  The content directory is flat; a source file is named by *)
(* its stem and its extension, urls and targets are strings.               *)
(***************************************************************************)
EXTENDS Integers, Sequences, FiniteSets, TLC

\* ------------------------------------------------------------------ bounds
\* milliseconds in a second (1000 in the program, scaled down)
MsPerSec == 2
\* runs of the tool in one behaviour
MaxRuns == 2
\* conversions after which the markup converter is taken to have settled
MaxConv == 4

\* --------------------------------------------------------------- JS values
\* null / undefined of a string field, and of a number field
Null == "null"
NullNum == -1
\* NaN, the result of Date.parse on undefined
NaN == -1

Truthy(s) == s # Null /\ s # ""
TruthyNum(n) == n # NullNum /\ n # 0

Min(a, b) == IF a < b THEN a ELSE b

\* A timestamp field (modified, writeTime): undefined, a Date object made by
\* getModifiedDate in this run, or the ISO string JSON.parse gives back for a
\* Date that JSON.stringify wrote (toISOString keeps the milliseconds).
Undefined == [k |-> "undefined", t |-> 0]
DateObj(t) == [k |-> "Date", t |-> t]
IsoString(t) == [k |-> "iso", t |-> t]

\* Date.parse(x) converts x to a string first.  A Date object becomes its
\* toString() text, which has no milliseconds, so the result is cut to the
\* second; an ISO string keeps them; undefined gives NaN.
DateParse(v) ==
  IF v.k = "undefined" THEN NaN
  ELSE IF v.k = "Date" THEN v.t - (v.t % MsPerSec)
  ELSE v.t

\* ==, != and >= on numbers, where every comparison with NaN is false
\* (so != is true)
NumEq(a, b) == a # NaN /\ b # NaN /\ a = b
NumNe(a, b) == ~NumEq(a, b)
NumGe(a, b) == a # NaN /\ b # NaN /\ a >= b

\* getModifiedDate(file): new Date(stats.mtime)
getModifiedDate(mtime) == DateObj(mtime)

\* JSON.parse(JSON.stringify(v)) of a timestamp field
JsonTime(v) == IF v.k = "Date" THEN IsoString(v.t) ELSE v

\* ------------------------------------------------------------------- dates
\* page.date: null, a Date object, or the text dateFormat produced from the
\* instant d with the format fmt.
NoDate == [k |-> "null", fmt |-> "", d |-> 0]
DateOf(d) == [k |-> "Date", fmt |-> "", d |-> d]
DateText(fmt, d) == [k |-> "text", fmt |-> fmt, d |-> d]

\* What a format keeps of an instant: "fullDate" prints the day only,
\* "isoDateTime" prints the second.  An instant is <<day, second of the day>>.
Keeps(fmt, d) == IF fmt = "fullDate" THEN <<d[1], 0>> ELSE d

\* new Date(v) of a page.date that is truthy: a copy of a Date, or the
\* instant read back from a formatted text
NewDate(v) == IF v.k = "text" THEN [k |-> "Date", fmt |-> "", d |-> Keeps(v.fmt, v.d)]
              ELSE v

\* dateFormat(v, fmt) at the instant today: null is formatted as the
\* current date, a text is first read back with new Date
dateFormat(v, fmt, today) ==
  IF v.k = "null" THEN DateText(fmt, Keeps(fmt, today))
  ELSE DateText(fmt, Keeps(fmt, NewDate(v).d))

\* ------------------------------------------------------------------ markup
\* The text of a page: the body of a source document converted n times.
\* '' is the body "" and converts to itself.
Text(body, n) == [body |-> body, n |-> n]
EmptyText == Text("", 0)

\* The markup converter is not the identity on its own output in general.
\* The HTML of a plain paragraph ("para") is one HTML block and converts to
\* itself.  The HTML of a list item that holds a code block with blank
\* lines and indented lines ("nested") is an HTML block only up to the first
\* blank line; what follows is read as markup again, and each conversion
\* removes one level of indentation, so the text changes on every
\* conversion (up to MaxConv).
FixPoint(body) == IF body = "nested" THEN MaxConv ELSE 1

convertCommonmarkToHtml(text) ==
  IF text.body = "" THEN text
  ELSE Text(text.body, Min(text.n + 1, FixPoint(text.body)))

\* ---------------------------------------------------------------- escaping
\* A string is the sequence of its char codes (str.charCodeAt(i)).
\* '' + c : the decimal digits of the number c, as char codes ('0' is 48)
RECURSIVE Digits(_)
Digits(c) == IF c < 10 THEN <<48 + c>> ELSE Digits(c \div 10) \o <<48 + (c % 10)>>

\* '&#' + c + ';'
Escape(c) == <<38, 35>> \o Digits(c) \o <<59>>

\* one turn of the loop with the test c < 127
PieceBelow127(c) == IF c < 127 THEN <<c>> ELSE Escape(c)

\* one turn of the loop of convertUnicodeCharsToHtml: what is appended to
\* result for the char code c
Piece(c) == IF c <= 127 THEN <<c>> ELSE Escape(c)

RECURSIVE ConvertFrom(_, _, _)
\* the loop of convertUnicodeCharsToHtml from position i with result so far
ConvertFrom(s, i, result) ==
  IF i > Len(s) THEN result ELSE ConvertFrom(s, i + 1, result \o Piece(s[i]))

convertUnicodeCharsToHtml(s) ==
  IF Len(s) = 0 THEN << >> ELSE ConvertFrom(s, 1, << >>)

\* ------------------------------------------------------------------- pages
\* subpages: the array (or, from _.omitBy, the index-keyed object) of the
\* pages an index lists.  items are positions in site.pages: the entries are
\* references to the page objects, not copies.  date is the stray property
\* writePages sets on the object when it is not an array.
SubArray(items) == [isArray |-> TRUE, items |-> items, date |-> NoDate]
SubObject(items) == [isArray |-> FALSE, items |-> items, date |-> NoDate]

NoFile == [stem |-> "", ext |-> ""]

defaultPage ==
  [ template |-> "default.pug",
    filename |-> NoFile,
    content |-> EmptyText,
    category |-> "",
    dateFormatString |-> Null,
    date |-> NoDate,
    slug |-> Null,
    url |-> "",
    target |-> "",
    relSiteUrl |-> "",
    index |-> FALSE,
    sortKey |-> Null,
    sortReverse |-> TRUE,
    subpages |-> SubArray(<<>>),
    maxSubpages |-> NullNum,
    \* not in defaultPage: absent until set
    weight |-> NullNum,
    modified |-> Undefined,
    writeTime |-> Undefined ]

PageFields == DOMAIN defaultPage

\* _.assign(page, source) where source has the own properties `set`
Assign(page, set, val) ==
  [k \in PageFields |-> IF k \in set THEN val[k] ELSE page[k]]

\* JSON.parse(JSON.stringify(page)): Date objects come back as ISO strings
JsonPage(page) ==
  [page EXCEPT !.modified = JsonTime(@), !.writeTime = JsonTime(@)]

\* stripExtOfPathname, path.basename
stripExtOfPathname(file) == file.stem

\* slug(normalize(name)): spaces become dashes
Slugify(name) == IF name = "my post" THEN "my-post" ELSE name

writeExt == ".html"

\* the instant of a run, for dateFormat of a page without a date: every run
\* of a behaviour happens on day 0
Today(clock) == <<0, clock>>

\* ------------------------------------------------------- the content directory
FA == [stem |-> "a", ext |-> ".md"]
FB == [stem |-> "my post", ext |-> ".md"]
FI == [stem |-> "index", ext |-> ".md"]
\* a source file of an earlier run, deleted since
FZ == [stem |-> "zz", ext |-> ".md"]
Files == {FA, FB, FI}

\* getFiles(site.contentDir, readExts, recursive): globule.find lists the
\* matches in alphabetical order
getFiles == <<FA, FI, FB>>

\* A source document: the front-matter fields it sets (yamlFront.loadFront
\* returns them with the body under 'content') and their values.
Doc(set, val, body) ==
  [set |-> set \cup {"content"}, val |-> [val EXCEPT !.content = Text(body, 0)]]

DocsOf(f) ==
  IF f = FA THEN
    << Doc({"category", "weight"},
           [defaultPage EXCEPT !.category = "news", !.weight = 1], "nested"),
       Doc({"category", "weight", "slug"},
           [defaultPage EXCEPT !.category = "news", !.weight = 2, !.slug = "first"],
           "nested") >>
  ELSE IF f = FB THEN
    << Doc({"category", "weight", "date"},
           [defaultPage EXCEPT !.category = "news", !.weight = 1,
                               !.date = DateOf(<<1, 1>>)], "para"),
       Doc({}, defaultPage, "para"),
       Doc({"category", "weight", "date", "dateFormatString"},
           [defaultPage EXCEPT !.category = "news", !.weight = 1,
                               !.date = DateOf(<<1, 1>>),
                               !.dateFormatString = "isoDateTime"], "para") >>
  ELSE
    << Doc({"index", "category", "sortKey", "maxSubpages"},
           [defaultPage EXCEPT !.index = TRUE, !.category = "news",
                               !.sortKey = "weight", !.maxSubpages = 1], "para"),
       Doc({"index", "dateFormatString"},
           [defaultPage EXCEPT !.index = TRUE, !.dateFormatString = "isoDateTime"],
           "para") >>

\* A cache file left by earlier runs and merged by hand: a record of the
\* deleted zz.md and two records of "my post.md".
LegacyPage(f, category) ==
  [defaultPage EXCEPT !.filename = f, !.category = category,
                      !.content = Text("para", 1),
                      !.slug = Slugify(f.stem),
                      !.url = Slugify(f.stem) \o writeExt,
                      !.target = Slugify(f.stem) \o writeExt,
                      !.relSiteUrl = ".",
                      !.date = DateText("fullDate", <<0, 0>>),
                      !.modified = IsoString(MsPerSec),
                      !.writeTime = IsoString(MsPerSec)]

LegacyCache ==
  << LegacyPage(FZ, "old"), LegacyPage(FB, "old"), LegacyPage(FB, "older") >>

\* ------------------------------------------------------------------- state
VARIABLES
  now,          \* the clock, in milliseconds
  src,          \* the source files: file -> [mtime, doc]
  tpl,          \* the version of the template default.pug
  out,          \* the output tree: target -> [mtime, text]
  cache,        \* the cache file: [exists, pages]
  cachedPages,  \* site.cachedPages is configured
  argv,         \* the files named on the command line
  files,        \* site.files
  pages,        \* site.pages
  pc,           \* where processSite is
  runs,         \* runs completed
  nSkipRead,    \* nSkip of readPages
  nSkipWrite,   \* nSkip of writePages
  reparsed,     \* the files readPages re-parsed in this run
  written,      \* the files whose page writePages wrote in this run
  changed,      \* the source files whose mtime changed since the last run
  tplChanged,   \* the template changed since the last run
  prevOut,      \* the output tree as the last run left it
  force,        \* site.force
  unreadable,   \* the source files that cannot be read
  str,          \* a string given to convertUnicodeCharsToHtml
  html          \* what convertUnicodeCharsToHtml returned for it

vars == << now, src, tpl, out, cache, cachedPages, argv, files, pages, pc, runs,
           nSkipRead, nSkipWrite, reparsed, written, changed, tplChanged, prevOut,
           force, unreadable, str, html >>

fsVars == << src, tpl, out, cache >>
cfgVars == << cachedPages, argv, force >>
strVars == << str, html >>
runVars == << files, pages, nSkipRead, nSkipWrite, reparsed, written >>

NoCache == [exists |-> FALSE, pages |-> <<>>]

\* the paths of the output directory a page of the model can be written to
Targets == {"a.html", "first.html", "my-post.html", "index.html"}

\* the text of an output file: what the template printed of the page and of
\* its subpages when it was rendered
NoText == [tpl |-> 0, content |-> EmptyText, date |-> NoDate,
           subs |-> << >>, stray |-> NoDate]
NoOutput == [exists |-> FALSE, mtime |-> 0, text |-> NoText]

\* The configurations a behaviour starts from: no cache file configured;
\* a cache file configured and not yet written; a cache file configured
\* that earlier runs left, with my post.md also named on the command line;
\* a cache file configured and the force option given.
Configs ==
  { [cachedPages |-> FALSE, cache |-> NoCache, argv |-> << >>, force |-> FALSE],
    [cachedPages |-> TRUE, cache |-> NoCache, argv |-> << >>, force |-> FALSE],
    [cachedPages |-> TRUE, cache |-> [exists |-> TRUE, pages |-> LegacyCache],
     argv |-> <<FB, FB>>, force |-> FALSE],
    [cachedPages |-> TRUE, cache |-> NoCache, argv |-> << >>, force |-> TRUE] }

\* no string has been given to convertUnicodeCharsToHtml
NotConverted == << -1 >>

Init ==
  /\ now \in {2 * MsPerSec, 2 * MsPerSec + 1}
  /\ src = [f \in Files |-> [mtime |-> MsPerSec, doc |-> 1]]
  /\ tpl = 1
  /\ out = [t \in Targets |-> NoOutput]
  /\ \E c \in Configs :
       /\ cachedPages = c.cachedPages
       /\ cache = c.cache
       /\ argv = c.argv
       /\ force = c.force
  /\ unreadable = {}
  /\ str = << >>
  /\ html = NotConverted
  /\ files = << >>
  /\ pages = << >>
  /\ pc = "idle"
  /\ runs = 0
  /\ nSkipRead = 0
  /\ nSkipWrite = 0
  /\ reparsed = {}
  /\ written = {}
  /\ changed = {}
  /\ tplChanged = FALSE
  /\ prevOut = [t \in Targets |-> NoOutput]

\* no run is in progress: the last one ended, by returning from processSite
\* or by an exception that nothing caught
Idle == pc \in {"idle", "aborted"}

\* the end of a run, however it ends
EndRun ==
  /\ runs' = runs + 1
  /\ now' = now + 1
  /\ changed' = {}
  /\ tplChanged' = FALSE
  /\ prevOut' = out

\* ------------------------------------------------------------- environment
\* The mtimes a touch is tried with: just before and just after the file's
\* mtime, and the current time
TouchTimes(f) == {src[f].mtime - 1, src[f].mtime + 1, now}

\* Between runs: utimes / touch gives a source file another mtime
TouchSource(f, t) ==
  /\ Idle
  /\ runs < MaxRuns
  /\ changed = {} /\ ~tplChanged
  /\ t >= 0
  /\ t # src[f].mtime
  /\ src' = [src EXCEPT ![f].mtime = t]
  /\ changed' = changed \cup {f}
  /\ UNCHANGED << now, tpl, out, cache, cfgVars, unreadable, strVars, runVars, pc, runs, tplChanged, prevOut >>

\* Between runs: an editor saves another document in a source file
EditSource(f, d) ==
  /\ Idle
  /\ runs < MaxRuns
  /\ changed = {} /\ ~tplChanged
  /\ d # src[f].doc
  /\ now # src[f].mtime
  /\ src' = [src EXCEPT ![f] = [mtime |-> now, doc |-> d]]
  /\ changed' = changed \cup {f}
  /\ UNCHANGED << now, tpl, out, cache, cfgVars, unreadable, strVars, runVars, pc, runs, tplChanged, prevOut >>

\* Between runs: the template default.pug is edited
EditTemplate ==
  /\ Idle
  /\ runs < MaxRuns
  /\ changed = {} /\ ~tplChanged
  /\ tpl' = tpl + 1
  /\ tplChanged' = TRUE
  /\ UNCHANGED << now, src, out, cache, cfgVars, unreadable, strVars, runVars, pc, runs, changed, prevOut >>

\* ------------------------------------------------------------- processSite
\* no removal of duplicates
UniqOmitted(s) == s

RECURSIVE Uniq(_)
\* _.uniq: the first occurrence of each element, in order
Uniq(s) ==
  IF s = << >> THEN << >>
  ELSE LET front == Uniq(SubSeq(s, 1, Len(s) - 1))
           x == s[Len(s)]
       IN IF \E i \in 1..Len(front) : front[i] = x THEN front ELSE Append(front, x)

\* site.forced, which processSite tests: main sets site.force (the default
\* and the command line), and no option of the site object is named forced,
\* so site.forced is undefined whatever site.force is
siteForced == FALSE

\* processSite, first statement: the cache file is read when it exists
\* and site.forced is not set
LoadCache ==
  /\ Idle
  /\ runs < MaxRuns
  /\ pages' = IF ~siteForced /\ cache.exists THEN cache.pages ELSE << >>
  /\ files' = argv
  /\ nSkipRead' = 0
  /\ nSkipWrite' = 0
  /\ reparsed' = {}
  /\ written' = {}
  /\ pc' = "loaded"
  /\ UNCHANGED << now, fsVars, cfgVars, unreadable, strVars, runs, changed, tplChanged, prevOut >>

\* cachedPages[file] of readPages: the last page of site.pages with the name
HasCached(loaded, file) == \E i \in 1..Len(loaded) : loaded[i].filename = file
CachedPage(loaded, file) ==
  LET last == CHOOSE i \in 1..Len(loaded) :
                /\ loaded[i].filename = file
                /\ \A j \in (i + 1)..Len(loaded) : loaded[j].filename # file
  IN loaded[last]

\* the staleness test of readPages
IsStale(mtime, page) ==
  NumNe(DateParse(getModifiedDate(mtime)), DateParse(page.modified))

\* the body of the loop of readPages for one file
ReadPage(file, loaded, source) ==
  LET p0 == IF HasCached(loaded, file)
            THEN Assign(defaultPage, PageFields, CachedPage(loaded, file))
            ELSE defaultPage
      p1 == [p0 EXCEPT !.filename = file]
      doc == DocsOf(file)[source.doc]
      p2 == IF IsStale(source.mtime, p1)
            THEN [Assign(p1, doc.set, doc.val) EXCEPT
                    !.content = convertCommonmarkToHtml(@),
                    !.modified = getModifiedDate(source.mtime)]
            ELSE p1
      p3 == IF p2.date.k # "null" THEN [p2 EXCEPT !.date = NewDate(@)] ELSE p2
      p4 == IF ~Truthy(p3.slug)
            THEN [p3 EXCEPT !.slug = Slugify(stripExtOfPathname(file))]
            ELSE p3
      p5 == [p4 EXCEPT !.content = convertCommonmarkToHtml(@)]
      p6 == IF p5.url = "" THEN [p5 EXCEPT !.url = p5.slug \o writeExt] ELSE p5
      p7 == IF p6.target = "" THEN [p6 EXCEPT !.target = p6.url] ELSE p6
  IN [p7 EXCEPT !.relSiteUrl = "."]

readPages ==
  /\ pc = "loaded"
  /\ LET fs == Uniq(files \o getFiles)
         loaded == pages
         stale == {i \in 1..Len(fs) :
                     IsStale(src[fs[i]].mtime,
                             IF HasCached(loaded, fs[i])
                             THEN CachedPage(loaded, fs[i]) ELSE defaultPage)}
     IN IF \E i \in stale : fs[i] \in unreadable
        THEN \* yamlFront.loadFront throws, nothing catches it: the process
             \* ends with the site object
             /\ files' = fs
             /\ pages' = << >>
             /\ nSkipRead' = 0
             /\ reparsed' = {}
             /\ pc' = "aborted"
             /\ EndRun
        ELSE /\ files' = fs
             /\ pages' = [i \in 1..Len(fs) |-> ReadPage(fs[i], loaded, src[fs[i]])]
             /\ nSkipRead' = Len(fs) - Cardinality(stale)
             /\ reparsed' = {fs[i] : i \in stale}
             /\ pc' = "read"
             /\ UNCHANGED << now, runs, changed, tplChanged, prevOut >>
  /\ UNCHANGED << fsVars, cfgVars, unreadable, strVars, nSkipWrite, written >>

\* ------------------------------------------------- generateIndexableSubpages
\* page[sortKey] as _.sortBy reads it; a field the page lacks is undefined
SortValue(page, sortKey) == IF sortKey = "weight" THEN page.weight ELSE NullNum

\* the ascending order of _.sortBy: undefined sorts after every number
Before(x, y) == (x # NullNum /\ y = NullNum) \/ (x # NullNum /\ y # NullNum /\ x < y)

\* insert x after the entries that do not come after it (the sort is stable)
InsertSorted(sorted, x, ps, sortKey) ==
  LET later == {j \in 1..Len(sorted) :
                  Before(SortValue(ps[x], sortKey), SortValue(ps[sorted[j]], sortKey))}
      at == IF later = {} THEN Len(sorted) + 1
            ELSE CHOOSE j \in later : \A k \in later : j <= k
  IN SubSeq(sorted, 1, at - 1) \o <<x>> \o SubSeq(sorted, at, Len(sorted))

RECURSIVE SortBy(_, _, _)
\* _.sortBy(subpages, sortKey)
SortBy(items, ps, sortKey) ==
  IF items = << >> THEN << >>
  ELSE InsertSorted(SortBy(SubSeq(items, 1, Len(items) - 1), ps, sortKey),
                    items[Len(items)], ps, sortKey)

\* a reversal that leaves the order as it is
ReverseOmitted(s) == s

\* _.reverse
Reverse(s) == [i \in 1..Len(s) |-> s[Len(s) + 1 - i]]

\* _.take(subpages, n): an object has no length and gives []
Take(sub, n) ==
  IF sub.isArray THEN SubArray(SubSeq(sub.items, 1, Min(n, Len(sub.items))))
  ELSE SubArray(<< >>)

\* _.omitBy(site.pages, {index: true}): an object keyed by position
OmitIndex(ps) ==
  SubObject(SelectSeq([i \in 1..Len(ps) |-> i], LAMBDA i : ps[i].index # TRUE))

\* _.filter(subpages, {category: page.category}): an array
FilterCategory(sub, ps, category) ==
  SubArray(SelectSeq(sub.items, LAMBDA i : ps[i].category = category))

\* the reversal applied whether or not there is a sortKey
SortStepReverseAlways(sub, ps, page) ==
  LET sorted == IF Truthy(page.sortKey)
                THEN SubArray(SortBy(sub.items, ps, page.sortKey)) ELSE sub
  IN IF page.sortReverse THEN [sorted EXCEPT !.items = Reverse(@)] ELSE sorted

\* the sort and the reversal of generateIndexableSubpages, both inside the
\* sortKey branch
SortStep(sub, ps, page) ==
  IF Truthy(page.sortKey)
  THEN LET sorted == SortBy(sub.items, ps, page.sortKey)
       IN SubArray(IF page.sortReverse THEN Reverse(sorted) ELSE sorted)
  ELSE sub

\* the truncation of generateIndexableSubpages
TakeStep(sub, page) ==
  IF TruthyNum(page.maxSubpages) THEN Take(sub, page.maxSubpages) ELSE sub

\* the subpages generateIndexableSubpages gives the index page `page`
Subpages(ps, page) ==
  LET all == OmitIndex(ps)
      filtered == IF Truthy(page.category)
                  THEN FilterCategory(all, ps, page.category) ELSE all
  IN TakeStep(SortStep(filtered, ps, page), page)

IndexAll(ps) ==
  [i \in 1..Len(ps) |->
     IF ps[i].index THEN [ps[i] EXCEPT !.subpages = Subpages(ps, ps[i])] ELSE ps[i]]

generateIndexableSubpages ==
  /\ pc = "read"
  /\ pages' = IndexAll(pages)
  /\ pc' = "indexed"
  /\ UNCHANGED << now, fsVars, cfgVars, unreadable, strVars, files, nSkipRead, nSkipWrite, reparsed,
                  written, runs, changed, tplChanged, prevOut >>

\* ---------------------------------------------------------------- writePages
\* site.dateFormatString
siteDateFormatString == "fullDate"

EffectiveFormat(page) ==
  IF Truthy(page.dateFormatString) THEN page.dateFormatString
  ELSE siteDateFormatString

\* the pages whose date the loop over _.concat([page], page.subpages)
\* formats: the page, then the entries of an array (an object is appended
\* as one element and gets a date property of its own)
Formatted(ps, i) ==
  IF ps[i].subpages.isArray
  THEN {i} \cup {ps[i].subpages.items[j] : j \in 1..Len(ps[i].subpages.items)}
  ELSE {i}

FormatDates(ps, i, clock) ==
  LET fmt == EffectiveFormat(ps[i])
      dated == [j \in 1..Len(ps) |->
                  IF j \in Formatted(ps, i)
                  THEN [ps[j] EXCEPT !.date = dateFormat(@, fmt, Today(clock))]
                  ELSE ps[j]]
  IN IF ps[i].subpages.isArray THEN dated
     ELSE [dated EXCEPT ![i].subpages.date = dateFormat(NoDate, fmt, Today(clock))]

\* the skip test of writePages for the page and the output file at its target
SkipWrite(page, file) ==
  /\ file.exists
  /\ NumEq(DateParse(getModifiedDate(file.mtime)), DateParse(page.writeTime))
  /\ NumGe(DateParse(getModifiedDate(file.mtime)), DateParse(page.modified))

\* getTemplateDir returns null: no file named page.template in the three
\* directories.  As a version of default.pug, the file is absent.
NoTemplate == 0

\* getTemplateDir(page, site): the template found, as its version
getTemplateDir(template) == template

\* the text written for the page: what default.pug, compiled with
\* {page, site}, prints; page.content as it is when the template path does
\* not end with 'pug' (_.endsWith(null, 'pug') is false)
Render(ps, i, template) ==
  IF getTemplateDir(template) = NoTemplate
  THEN [NoText EXCEPT !.content = ps[i].content]
  ELSE [ tpl |-> template,
         content |-> ps[i].content,
         date |-> ps[i].date,
         subs |-> [j \in 1..Len(ps[i].subpages.items) |->
                     [url |-> ps[ps[i].subpages.items[j]].url,
                      date |-> ps[ps[i].subpages.items[j]].date]],
         stray |-> ps[i].subpages.date ]

\* the state the loop of writePages carries from page to page
WriteOne(st, i, template, clock) ==
  LET ps == FormatDates(st.ps, i, clock)
      page == ps[i]
  IN IF SkipWrite(page, st.out[page.target])
     THEN [st EXCEPT !.ps = ps, !.nSkip = @ + 1]
     ELSE [ ps |-> [ps EXCEPT ![i].writeTime = getModifiedDate(clock)],
            out |-> [st.out EXCEPT ![page.target] =
                       [exists |-> TRUE, mtime |-> clock,
                        text |-> Render(ps, i, template)]],
            nSkip |-> st.nSkip,
            written |-> st.written \cup {page.filename} ]

RECURSIVE WriteUpTo(_, _, _, _)
WriteUpTo(st, n, template, clock) ==
  IF n = 0 THEN st
  ELSE WriteOne(WriteUpTo(st, n - 1, template, clock), n, template, clock)

\* writePages called before generateIndexableSubpages, which is left out
writePagesBeforeIndex ==
  /\ pc = "read"
  /\ LET st == WriteUpTo([ps |-> pages, out |-> out, nSkip |-> 0, written |-> {}],
                         Len(pages), tpl, now)
     IN /\ pages' = st.ps
        /\ out' = st.out
        /\ nSkipWrite' = st.nSkip
        /\ written' = st.written
  /\ pc' = "written"
  /\ UNCHANGED << now, src, tpl, cache, cfgVars, unreadable, strVars, files, nSkipRead, reparsed,
                  runs, changed, tplChanged, prevOut >>

writePages ==
  /\ pc = "indexed"
  /\ LET st == WriteUpTo([ps |-> pages, out |-> out, nSkip |-> 0, written |-> {}],
                         Len(pages), tpl, now)
     IN /\ pages' = st.ps
        /\ out' = st.out
        /\ nSkipWrite' = st.nSkip
        /\ written' = st.written
  /\ pc' = "written"
  /\ UNCHANGED << now, src, tpl, cache, cfgVars, unreadable, strVars, files, nSkipRead, reparsed,
                  runs, changed, tplChanged, prevOut >>

\* the records saved with their subpages left in
SavedWithSubpages(ps) == [i \in 1..Len(ps) |-> JsonPage(ps[i])]

\* the records processSite saves: every page with subpages = []
Saved(ps) ==
  [i \in 1..Len(ps) |-> JsonPage([ps[i] EXCEPT !.subpages = SubArray(<< >>)])]

\* processSite, last statement, and the end of the run
saveCachedPages ==
  /\ pc = "written"
  /\ cache' = IF cachedPages THEN [exists |-> TRUE, pages |-> Saved(pages)] ELSE cache
  /\ pages' = IF cachedPages
              THEN [i \in 1..Len(pages) |-> [pages[i] EXCEPT !.subpages = SubArray(<< >>)]]
              ELSE pages
  /\ pc' = "idle"
  /\ EndRun
  /\ UNCHANGED << src, tpl, out, cfgVars, unreadable, strVars, files, nSkipRead, nSkipWrite, reparsed, written >>

\* processSite, last statement, when fs.writeFileSync of the cache file
\* throws (the file cannot be opened for writing): the file is left as it
\* was, nothing catches the exception
saveCachedPagesFails ==
  /\ pc = "written"
  /\ cachedPages
  /\ pages' = [i \in 1..Len(pages) |-> [pages[i] EXCEPT !.subpages = SubArray(<< >>)]]
  /\ pc' = "aborted"
  /\ EndRun
  /\ UNCHANGED << fsVars, cfgVars, unreadable, strVars, files, nSkipRead, nSkipWrite,
                  reparsed, written >>

Next ==
  \/ \E f \in Files : \E t \in TouchTimes(f) : TouchSource(f, t)
  \/ \E f \in Files : \E d \in 1..Len(DocsOf(f)) : EditSource(f, d)
  \/ EditTemplate
  \/ LoadCache
  \/ readPages
  \/ generateIndexableSubpages
  \/ writePages
  \/ saveCachedPages

Spec == Init /\ [][Next]_vars

\* ------------------------------------------------------- runs with failures
\* Between runs: a source file loses its read permission (its mtime stays)
MakeUnreadable(f) ==
  /\ Idle
  /\ runs < MaxRuns
  /\ changed = {} /\ ~tplChanged
  /\ unreadable = {}
  /\ unreadable' = {f}
  /\ UNCHANGED << now, fsVars, cfgVars, strVars, runVars, pc, runs, changed,
                  tplChanged, prevOut >>

\* Between runs: default.pug is removed from every template directory
RemoveTemplate ==
  /\ Idle
  /\ runs < MaxRuns
  /\ changed = {} /\ ~tplChanged
  /\ tpl # NoTemplate
  /\ tpl' = NoTemplate
  /\ tplChanged' = TRUE
  /\ UNCHANGED << now, src, out, cache, cfgVars, unreadable, strVars, runVars, pc,
                  runs, changed, prevOut >>

\* The runs of the tool when a source file may be unreadable, the template
\* may be missing and the cache file may not be writable.
NextFault ==
  \/ \E f \in Files : MakeUnreadable(f)
  \/ \E f \in Files : TouchSource(f, now)
  \/ RemoveTemplate
  \/ LoadCache
  \/ readPages
  \/ generateIndexableSubpages
  \/ writePages
  \/ saveCachedPages
  \/ saveCachedPagesFails

FaultSpec == Init /\ [][NextFault]_vars

\* ------------------------------------------------- the escaping on its own
\* convertUnicodeCharsToHtml applied to every string of at most MaxLen
\* char codes drawn from Codes: '&', 'A', DEL, the first code above 127, a
\* Latin-1 letter, the euro sign, a surrogate.
MaxLen == 3
Codes == {38, 65, 127, 128, 233, 8364, 55357}

Convert ==
  /\ html = NotConverted
  /\ html' = convertUnicodeCharsToHtml(str)
  /\ UNCHANGED << now, fsVars, cfgVars, unreadable, str, runVars, pc, runs, changed,
                  tplChanged, prevOut >>

InitUni ==
  /\ now = 2 * MsPerSec
  /\ src = [f \in Files |-> [mtime |-> MsPerSec, doc |-> 1]]
  /\ tpl = 1
  /\ out = [t \in Targets |-> NoOutput]
  /\ cachedPages = FALSE
  /\ cache = NoCache
  /\ argv = << >>
  /\ force = FALSE
  /\ unreadable = {}
  /\ \E n \in 0..MaxLen : str \in [1..n -> Codes]
  /\ html = NotConverted
  /\ files = << >>
  /\ pages = << >>
  /\ pc = "idle"
  /\ runs = 0
  /\ nSkipRead = 0
  /\ nSkipWrite = 0
  /\ reparsed = {}
  /\ written = {}
  /\ changed = {}
  /\ tplChanged = FALSE
  /\ prevOut = [t \in Targets |-> NoOutput]

NextUni == Convert

UniSpec == InitUni /\ [][NextUni]_vars

\* ---------------------------------------------- the aggregation on its own
\* generateIndexableSubpages applied to the pages readPages can leave: NumPosts
\* pages with a category and a weight, one index page among them with any
\* category, sortKey, sortReverse and maxSubpages, and a second index page
\* (no category, no sortKey) at the end.
NumPosts == 3
MaxWeight == 2
MaxTake == 2

Resolved(stem, val) ==
  [val EXCEPT !.filename = [stem |-> stem, ext |-> ".md"],
              !.content = Text("para", 1),
              !.slug = stem,
              !.url = stem \o writeExt,
              !.target = stem \o writeExt,
              !.relSiteUrl = ".",
              !.modified = getModifiedDate(MsPerSec)]

Post(n, category, weight) ==
  Resolved("p" \o ToString(n),
           [defaultPage EXCEPT !.category = category, !.weight = weight])

IndexPage(stem, category, sortKey, sortReverse, maxSubpages) ==
  Resolved(stem,
           [defaultPage EXCEPT !.index = TRUE, !.category = category,
                               !.sortKey = sortKey, !.sortReverse = sortReverse,
                               !.maxSubpages = maxSubpages])

InsertAt(s, at, x) == SubSeq(s, 1, at - 1) \o <<x>> \o SubSeq(s, at, Len(s))

InitAgg ==
  /\ now = 2 * MsPerSec
  /\ src = [f \in Files |-> [mtime |-> MsPerSec, doc |-> 1]]
  /\ tpl = 1
  /\ out = [t \in Targets |-> NoOutput]
  /\ cachedPages = FALSE
  /\ cache = NoCache
  /\ argv = << >>
  /\ force = FALSE
  /\ unreadable = {}
  /\ str = << >>
  /\ html = NotConverted
  /\ \E cat \in [1..NumPosts -> {"news", "misc"}],
        w \in [1..NumPosts -> 1..MaxWeight],
        at \in {1, NumPosts + 1},
        category \in {"", "news"},
        sortKey \in {Null, "weight"},
        sortReverse \in BOOLEAN,
        maxSubpages \in {NullNum} \cup 0..MaxTake :
       pages = Append(
                 InsertAt([n \in 1..NumPosts |-> Post(n, cat[n], w[n])], at,
                          IndexPage("index", category, sortKey, sortReverse, maxSubpages)),
                 IndexPage("archive", "", Null, TRUE, NullNum))
  /\ files = [i \in 1..Len(pages) |-> pages[i].filename]
  /\ pc = "read"
  /\ runs = 0
  /\ nSkipRead = 0
  /\ nSkipWrite = 0
  /\ reparsed = {}
  /\ written = {}
  /\ changed = {}
  /\ tplChanged = FALSE
  /\ prevOut = [t \in Targets |-> NoOutput]

NextAgg == generateIndexableSubpages

AggSpec == InitAgg /\ [][NextAgg]_vars

\* ------------------------------------------------------------------ claims
\* the positions of the pages an index page may list: not an index page,
\* and of the index page's category when it has one
Candidates(ps, page) ==
  {i \in 1..Len(ps) :
     /\ ps[i].index # TRUE
     /\ Truthy(page.category) => ps[i].category = page.category}

Range(s) == {s[i] : i \in 1..Len(s)}

\* items lists, in the order Prec, the first entries of the set S: its
\* first `len` ones
IsLeading(items, S, len, Prec(_, _)) ==
  /\ Len(items) = len
  /\ Range(items) \subseteq S
  /\ \A a, b \in 1..Len(items) : a < b => Prec(items[a], items[b])
  /\ \A c \in S \ Range(items) : \A a \in 1..Len(items) : Prec(items[a], c)

\* descending weight, equal weights in discovery order
DescStable(ps, i, j) ==
  ps[i].weight > ps[j].weight \/ (ps[i].weight = ps[j].weight /\ i < j)

\* descending weight, equal weights in reverse discovery order
DescReversed(ps, i, j) ==
  ps[i].weight > ps[j].weight \/ (ps[i].weight = ps[j].weight /\ i > j)

\* the index pages the aggregation claim is about
IsSortedIndex(page) ==
  /\ page.index
  /\ Truthy(page.category)
  /\ page.sortKey = "weight"
  /\ page.sortReverse
  /\ page.maxSubpages # NullNum

\* C5 as stated: after generateIndexableSubpages an index page with a
\* category, sortKey, sortReverse = true and maxSubpages = k lists exactly
\* the first k pages of its category by descending sort value, pages of
\* equal value in discovery order.
C5_TopK_TiesInDiscoveryOrder ==
  pc = "indexed" =>
    \A i \in 1..Len(pages) :
      IsSortedIndex(pages[i]) =>
        IsLeading(pages[i].subpages.items, Candidates(pages, pages[i]),
                  Min(pages[i].maxSubpages, Cardinality(Candidates(pages, pages[i]))),
                  LAMBDA a, b : DescStable(pages, a, b))

\* C5 as amended: the pages of equal sort value come in reverse discovery
\* order, and maxSubpages = 0 truncates nothing (0 counts as not set).
C5_TopK_TiesReversed ==
  pc = "indexed" =>
    \A i \in 1..Len(pages) :
      IsSortedIndex(pages[i]) =>
        /\ pages[i].subpages.isArray
        /\ IsLeading(pages[i].subpages.items, Candidates(pages, pages[i]),
                     IF pages[i].maxSubpages = 0
                     THEN Cardinality(Candidates(pages, pages[i]))
                     ELSE Min(pages[i].maxSubpages,
                              Cardinality(Candidates(pages, pages[i]))),
                     LAMBDA a, b : DescReversed(pages, a, b))

\* C5's case: a sorted index page that lists, truncated, two pages of equal
\* sort value and leaves a page out
C5_Witness ==
  /\ pc = "indexed"
  /\ \E i \in 1..Len(pages) :
       /\ IsSortedIndex(pages[i])
       /\ pages[i].maxSubpages = 2
       /\ Cardinality(Candidates(pages, pages[i])) > 2
       /\ Len(pages[i].subpages.items) = 2
       /\ pages[pages[i].subpages.items[1]].weight
            = pages[pages[i].subpages.items[2]].weight

\* C6 as stated: an index page without sortKey lists its candidate pages in
\* discovery order when sortReverse is false and in reversed discovery
\* order when sortReverse is true.
C6_NoSortKey_ReversedIfSortReverse ==
  pc = "indexed" =>
    \A i \in 1..Len(pages) :
      (pages[i].index /\ ~Truthy(pages[i].sortKey)) =>
        IsLeading(pages[i].subpages.items, Candidates(pages, pages[i]),
                  Cardinality(Candidates(pages, pages[i])),
                  LAMBDA a, b : IF pages[i].sortReverse THEN a > b ELSE a < b)

\* C6 as amended: an index page without sortKey (and without maxSubpages)
\* lists its candidate pages in discovery order, whatever sortReverse is.
C6_NoSortKey_DiscoveryOrder ==
  pc = "indexed" =>
    \A i \in 1..Len(pages) :
      (pages[i].index /\ ~Truthy(pages[i].sortKey)
         /\ ~TruthyNum(pages[i].maxSubpages)) =>
        IsLeading(pages[i].subpages.items, Candidates(pages, pages[i]),
                  Cardinality(Candidates(pages, pages[i])),
                  LAMBDA a, b : a < b)

\* C6's case: an index page without sortKey, with sortReverse = true, that
\* lists two pages or more
C6_Witness ==
  /\ pc = "indexed"
  /\ \E i \in 1..Len(pages) :
       /\ pages[i].index /\ ~Truthy(pages[i].sortKey) /\ pages[i].sortReverse
       /\ Truthy(pages[i].category)
       /\ Len(pages[i].subpages.items) >= 2

\* C7: an index page with maxSubpages = k >= 0 lists exactly the first
\* min(k, n) of its n candidate pages in their selected order, and all of
\* them when maxSubpages is null.
C7_Truncation ==
  pc = "indexed" =>
    \A i \in 1..Len(pages) :
      pages[i].index =>
        LET selected == SortStep(
                          IF Truthy(pages[i].category)
                          THEN FilterCategory(OmitIndex(pages), pages, pages[i].category)
                          ELSE OmitIndex(pages),
                          pages, pages[i]).items
            k == pages[i].maxSubpages
        IN pages[i].subpages.items =
             IF k = NullNum THEN selected
             ELSE SubSeq(selected, 1, Min(k, Len(selected)))

\* ------------------------------------------------ claims about whole runs
\* what the output tree holds: the files and their texts
Tree(o) == [t \in Targets |-> [exists |-> o[t].exists, text |-> o[t].text]]

PageFiles == {pages[i].filename : i \in 1..Len(pages)}

\* a run after a completed run, with the cache configured, has written its
\* pages (the cache file still holds what the previous run saved)
SecondRunWritten == pc = "written" /\ runs >= 1 /\ cachedPages

\* C1 (with cachedPages configured): a second run with no source, template
\* or output changed since the first leaves the output tree as it was and
\* skips the write of every page.
C1_Idempotent ==
  (SecondRunWritten /\ changed = {} /\ ~tplChanged) =>
    /\ Tree(out) = Tree(prevOut)
    /\ nSkipWrite = Len(pages)

\* C2 (for an mtime changed to a later value): when exactly one source
\* file's mtime changed since the previous run, the run re-parses exactly
\* that page and re-writes exactly its output.
C2_ChangePropagation ==
  (/\ SecondRunWritten
   /\ Cardinality(changed) = 1
   /\ \A f \in changed :
        /\ HasCached(cache.pages, f)
        /\ src[f].mtime > CachedPage(cache.pages, f).modified.t) =>
    /\ reparsed = changed
    /\ written = changed

\* the timestamp a value stands for, milliseconds kept (NaN for undefined)
DateParseKeepMs(v) == IF v.k = "undefined" THEN NaN ELSE v.t

\* C3: readPages skips the re-parse of exactly the files whose mtime equals
\* the modified value the loaded cache records for them, milliseconds
\* included, and counts them in nSkip.
C3_StalenessTest ==
  (pc = "read" /\ cache.exists) =>
    /\ \A f \in PageFiles :
         f \notin reparsed <=>
           /\ HasCached(cache.pages, f)
           /\ NumEq(DateParseKeepMs(getModifiedDate(src[f].mtime)),
                    DateParseKeepMs(CachedPage(cache.pages, f).modified))
    /\ nSkipRead = Cardinality(PageFiles \ reparsed)

\* C4: a run after the template was modified re-writes the output of every
\* page rendered with it.
C4_TemplateStaleness ==
  (SecondRunWritten /\ tplChanged) => written = PageFiles

\* the paths discovered, in discovery order, duplicates included
Discovered == argv \o getFiles

FirstAt(s, x) == CHOOSE i \in 1..Len(s) : s[i] = x /\ \A j \in 1..(i - 1) : s[j] # x

\* recs holds exactly one record per discovered path, in discovery order
OnePerPath(recs) ==
  /\ {recs[i].filename : i \in 1..Len(recs)} = Range(Discovered)
  /\ \A i, j \in 1..Len(recs) :
       i < j => FirstAt(Discovered, recs[i].filename) < FirstAt(Discovered, recs[j].filename)

\* C8: after readPages site.pages holds exactly one page per discovered
\* path, in discovery order, and so does the cache the run saves.
C8_OnePagePerPath ==
  /\ pc \in {"read", "indexed", "written"} => OnePerPath(pages)
  /\ (pc = "idle" /\ runs >= 1 /\ cachedPages) => (cache.exists /\ OnePerPath(cache.pages))

\* C8's case: readPages has run on a path discovered twice, with a loaded
\* cache that holds two records of one file and a record of a deleted file
C8_Witness ==
  /\ pc = "read"
  /\ \E i, j \in 1..Len(Discovered) : i # j /\ Discovered[i] = Discovered[j]
  /\ \E i, j \in 1..Len(cache.pages) :
       i # j /\ cache.pages[i].filename = cache.pages[j].filename
  /\ \E i \in 1..Len(cache.pages) : cache.pages[i].filename \notin Range(Discovered)
  /\ Len(pages) = Cardinality(Files)

\* C9: a page whose source is unchanged has, after the run reloaded it from
\* the cache, the url, target and content the cache was saved with.
C9_CacheRoundTrip ==
  (pc = "read" /\ runs >= 1 /\ cache.exists) =>
    \A i \in 1..Len(pages) :
      (pages[i].filename \notin changed /\ HasCached(cache.pages, pages[i].filename)) =>
        LET c == CachedPage(cache.pages, pages[i].filename)
        IN /\ pages[i].url = c.url
           /\ pages[i].target = c.target
           /\ pages[i].content = c.content

\* C10: every record of the cache file has empty subpages, and what an
\* index page lists after generateIndexableSubpages are pages of this run:
\* candidates of the index page, all of them when nothing is truncated.
C10_SubpagesNotPersisted ==
  /\ \A i \in 1..Len(cache.pages) : cache.pages[i].subpages = SubArray(<< >>)
  /\ pc = "indexed" =>
       \A i \in 1..Len(pages) :
         pages[i].index =>
           /\ Range(pages[i].subpages.items) \subseteq Candidates(pages, pages[i])
           /\ ~TruthyNum(pages[i].maxSubpages) =>
                Range(pages[i].subpages.items) = Candidates(pages, pages[i])

\* C10's case: in a run that loaded the cache a previous run saved, an index
\* page that has a cache record lists pages
C10_Witness ==
  /\ pc = "indexed" /\ runs >= 1 /\ cache.exists
  /\ \E i \in 1..Len(pages) :
       /\ pages[i].index
       /\ HasCached(cache.pages, pages[i].filename)
       /\ pages[i].subpages.items # << >>

\* C11: when site.force is true a run does not load the cache file even if
\* it exists: after readPages every page is the one resolved from the
\* defaults and its current front matter, and every page was re-parsed.
C11_ForceBypassesCache ==
  (pc = "read" /\ force /\ cache.exists) =>
    /\ reparsed = PageFiles
    /\ \A i \in 1..Len(pages) :
         pages[i] = ReadPage(files[i], << >>, src[files[i]])

\* every discovered file has its page, resolved: filename, modified, url
\* and target are set
AllResolved ==
  /\ Len(pages) = Len(Uniq(Discovered))
  /\ \A i \in 1..Len(pages) :
       /\ pages[i].filename = Uniq(Discovered)[i]
       /\ pages[i].modified.k # "undefined"
       /\ pages[i].url # "" /\ pages[i].target # ""

\* every index page holds the subpages the aggregation gives it
AllAggregated ==
  \A i \in 1..Len(pages) :
    pages[i].index => pages[i].subpages = Subpages(pages, pages[i])

\* C12: within a run the output tree changes only in the step that follows
\* the resolution of every page and the aggregation of every index page;
\* the cache file changes only after every page was written or skipped;
\* and the step that saves the cache, also when it fails, leaves every
\* output file as it is.
C12_PhaseOrdering ==
  [][ /\ out' # out => (pc = "indexed" /\ AllResolved /\ AllAggregated)
      /\ cache' # cache =>
           (pc = "written" /\ Cardinality(written) + nSkipWrite = Len(pages))
      /\ pc = "written" => out' = out ]_vars

\* C12's case: the save of the cache failed in a run that had written
\* pages, and the output files are there
C12_Witness ==
  /\ pc = "aborted"
  /\ written # {}
  /\ \A i \in 1..Len(pages) : out[pages[i].target].exists
  /\ ~cache.exists

\* C13: a run in which a source file cannot be read skips that page only:
\* the run is not aborted, and the page of every other discovered file is
\* resolved and written.
C13_FailureIsolation ==
  /\ ~(pc = "aborted" /\ pages = << >>)
  /\ (pc = "written" /\ unreadable # {}) =>
       \A f \in Range(Discovered) \ unreadable : out[Slugify(f.stem) \o writeExt].exists

\* C14: when no file named page.template exists in any of the three
\* template directories, writePages writes no output file for the page and
\* does not update its writeTime.
C14_TemplateMissing ==
  (pc = "written" /\ tpl = NoTemplate) =>
    \A i \in 1..Len(pages) :
      /\ pages[i].filename \notin written
      /\ out[pages[i].target] = prevOut[pages[i].target]
      /\ pages[i].writeTime.k # "Date"

\* the front matter the source file f holds now
FrontMatter(f) == DocsOf(f)[src[f].doc]

\* the date of the front matter of f, formatted once with fmt
FormattedOnce(f, fmt) == DateText(fmt, Keeps(fmt, FrontMatter(f).val.date.d))

\* the page was re-parsed in this run from a front matter that sets a date
DatedNow(page) ==
  page.filename \in reparsed /\ "date" \in FrontMatter(page.filename).set

\* C15 (for subpages held in an array): the date the rendering of a written
\* page P shows for P, and for every page in P.subpages, is that page's
\* front-matter date formatted once with the effective format of P,
\* wherever P stands in site.pages.
C15_DatesFormattedOnce ==
  pc = "written" =>
    \A i \in 1..Len(pages) :
      (/\ pages[i].filename \in written
       /\ pages[i].subpages.isArray
       /\ out[pages[i].target].text.tpl # NoTemplate) =>
        LET fmt == EffectiveFormat(pages[i])
            text == out[pages[i].target].text
        IN /\ DatedNow(pages[i]) =>
                text.date = FormattedOnce(pages[i].filename, fmt)
           /\ \A j \in 1..Len(text.subs) :
                LET sub == pages[pages[i].subpages.items[j]]
                IN DatedNow(sub) => text.subs[j].date = FormattedOnce(sub.filename, fmt)

\* the writeTime the loaded cache records for the file (undefined if none)
RecordedWriteTime(f) ==
  IF cache.exists /\ HasCached(cache.pages, f)
  THEN CachedPage(cache.pages, f).writeTime ELSE Undefined

\* the skip rule on the timestamps as they are, milliseconds included
SkipRule(page, file) ==
  /\ file.exists
  /\ NumEq(file.mtime, DateParseKeepMs(RecordedWriteTime(page.filename)))
  /\ NumGe(file.mtime, DateParseKeepMs(page.modified))

\* C17: writePages skips the write of a page if and only if an output file
\* exists at its target, the file's mtime equals the page's recorded
\* writeTime and is not older than the page's modified time; a skip leaves
\* the output file and the writeTime as they were, and after a write the
\* page's writeTime is the new mtime of the output file.
C17_SkipWriteRule ==
  pc = "written" =>
    \A i \in 1..Len(pages) :
      LET page == pages[i]
          skip == SkipRule(page, prevOut[page.target])
      IN /\ page.filename \notin written <=> skip
         /\ skip => /\ out[page.target] = prevOut[page.target]
                    /\ page.writeTime = RecordedWriteTime(page.filename)
         /\ ~skip => /\ page.writeTime.k = "Date"
                     /\ page.writeTime.t = out[page.target].mtime

\* C18: after readPages every page whose current front matter sets no url
\* has the url made of its current slug and writeExt, and, when the front
\* matter sets no target, the target equal to that url; also for a page
\* loaded from the cache whose front-matter slug changed since.
C18_DerivedFields ==
  pc = "read" =>
    \A i \in 1..Len(pages) :
      LET front == FrontMatter(pages[i].filename)
          current == IF "slug" \in front.set THEN front.val.slug
                     ELSE Slugify(stripExtOfPathname(pages[i].filename))
      IN (pages[i].filename \in reparsed /\ "url" \notin front.set) =>
           /\ pages[i].url = current \o writeExt
           /\ "target" \notin front.set => pages[i].target = pages[i].url

\* the metadata fields of a page that only the front matter sets
MetaFields ==
  {"template", "category", "dateFormatString", "index", "sortKey", "sortReverse",
   "maxSubpages"}

\* C19: after readPages re-parsed a page, each metadata field its current
\* front matter does not set has the default value, whatever the cached
\* record of an earlier run holds.
C19_UnsetFieldsDefault ==
  (pc = "read" /\ runs >= 1) =>
    \A i \in 1..Len(pages) :
      pages[i].filename \in reparsed =>
        \A k \in MetaFields \ FrontMatter(pages[i].filename).set :
          pages[i][k] = defaultPage[k]

\* the urls of the pages an index page lists, in order
ListedUrls(ps, i) ==
  [j \in 1..Len(ps[i].subpages.items) |-> ps[ps[i].subpages.items[j]].url]

\* the urls the output file shows as listed
ShownUrls(file) == [j \in 1..Len(file.text.subs) |-> file.text.subs[j].url]

\* C20: in a run after a completed run, an index page that lists a page
\* whose source changed and that was re-parsed in this run, or whose list
\* of subpages is not the one its output file shows, is written in this
\* run.
C20_IndexFreshness ==
  (pc = "written" /\ runs >= 1 /\ cache.exists) =>
    \A i \in 1..Len(pages) :
      (/\ pages[i].index
       /\ prevOut[pages[i].target].exists
       /\ \/ \E j \in Range(pages[i].subpages.items) :
               pages[j].filename \in reparsed \cap changed
          \/ ListedUrls(pages, i) # ShownUrls(prevOut[pages[i].target])) =>
        pages[i].filename \in written

\* ------------------------------------------------ claims about the escaping
\* the number of decimal digits of c
RECURSIVE NumDigits(_)
NumDigits(c) == IF c < 10 THEN 1 ELSE 1 + NumDigits(c \div 10)

\* the number a sequence of digit characters writes
RECURSIVE DecimalValue(_)
DecimalValue(ds) ==
  IF ds = << >> THEN 0
  ELSE 10 * DecimalValue(SubSeq(ds, 1, Len(ds) - 1)) + (ds[Len(ds)] - 48)

\* the length of what stands for the character c in the result
Width(c) == IF c <= 127 THEN 1 ELSE 3 + NumDigits(c)

\* where the characters before position i end in the result
RECURSIVE Offset(_, _)
Offset(s, i) == IF i = 1 THEN 0 ELSE Offset(s, i - 1) + Width(s[i - 1])

\* C16: the result of convertUnicodeCharsToHtml holds, in the order of the
\* input, every character with code <= 127 unchanged and for every
\* character with code c > 127 the text '&#' c ';' in its place, nothing
\* else, and so no character above 127.
C16_NonAsciiEscaped ==
  html # NotConverted =>
    /\ Len(html) = Offset(str, Len(str) + 1)
    /\ \A i \in 1..Len(str) :
         LET at == Offset(str, i)
             c == str[i]
         IN IF c <= 127 THEN html[at + 1] = c
            ELSE /\ html[at + 1] = 38 /\ html[at + 2] = 35
                 /\ \A k \in 3..(2 + NumDigits(c)) : html[at + k] \in 48..57
                 /\ DecimalValue(SubSeq(html, at + 3, at + 2 + NumDigits(c))) = c
                 /\ html[at + Width(c)] = 59
    /\ \A k \in 1..Len(html) : html[k] <= 127

\* C16's case: a string converted that holds DEL (127), the first code
\* above it (128), and a character below 127 after an escaped one
C16_Witness ==
  /\ html # NotConverted
  /\ \E i, j, k \in 1..Len(str) :
       str[i] = 127 /\ str[j] = 128 /\ j < k /\ str[k] < 127
  /\ Len(html) > Len(str)

====
